---- MODULE Spec2Model ----
(***************************************************************************)
(* Photo categorizer (working_app.py): the register-person handler, the    *)
(* categorize batch loop and SimpleFaceCategorizer, over the data/         *)
(* directory tree and the system temporary directory.                      *)
(***************************************************************************)
EXTENDS Integers, Sequences, FiniteSets, TLC

VARIABLES
    dirs,            \* directories under data/: <<tree, folder>>
    files,           \* files under data/: <<tree, folder, file name>> -> content
    tmpdir,          \* temporary files of the batch loop: name -> content
    pc,              \* position of the script: "idle", the loop steps, "done", "aborted"
    uploaded_files,  \* the photos of the running batch, in upload order
    selected_person, \* the selectbox choice of the running batch
    i,               \* index of the photo the loop is at
    tmp_path,        \* name of the temporary file of photo i
    results,         \* result records appended so far
    errors,          \* st.error diagnostics shown in this run
    message,         \* st.success / st.warning shown in this run
    metrics,         \* the two st.metric values of the summary
    created,         \* temporary names created by the running batch
    last,            \* the last interaction: button, name typed, files uploaded
    nrun             \* interactions (runs of the script) so far

vars == <<dirs, files, tmpdir, pc, uploaded_files, selected_person, i, tmp_path,
          results, errors, message, metrics, created, last, nrun>>

(***************************************************************************)
(* Bounds of the model.                                                    *)
(***************************************************************************)
MaxUploads == 2
MaxRuns == 2

(***************************************************************************)
(* Input domains.                                                          *)
(***************************************************************************)
\* A name whose path separators leave registered/ (the name is used verbatim).
Traversal == "../categorized/eve"

\* Values of the "Enter person name" text input.
PersonNames == {"", "alice", "bob", Traversal}

\* Image contents, by what the detector does with them.
Images == {"corrupt", "landscape", "group", "huge"}

\* Contents uploaded as registration samples (registration never reads them).
SampleImages == {"landscape", "group"}

\* What a copy that failed after truncating its destination leaves behind.
Partial == "PARTIAL"

\* File names of uploads.
UploadNames == {"a.jpg", "b.jpg"}
PhotoNames == {"a.jpg"}

\* Names tempfile can hand out.
TmpNames == {"tmpA.jpg", "tmpB.jpg"}

Uploads(names, imgs) == [name : names, bytes : imgs]

RECURSIVE ListsUpTo(_, _)
ListsUpTo(S, n) ==
    IF n = 0 THEN {<<>>}
    ELSE LET shorter == ListsUpTo(S, n - 1)
         IN  shorter \cup {Append(l, x) : l \in {m \in shorter : Len(m) = n - 1}, x \in S}

SampleLists == ListsUpTo(Uploads(UploadNames, SampleImages), MaxUploads)
PhotoLists == ListsUpTo(Uploads(PhotoNames, Images), MaxUploads)

(***************************************************************************)
(* Paths.                                                                  *)
(***************************************************************************)
\* data_dir / tree / name, as the kernel resolves it.
JoinDir(tree, name) ==
    IF name = Traversal THEN <<"categorized", "eve">> ELSE <<tree, name>>

FilePath(dir, fname) == <<dir[1], dir[2], fname>>

\* f"sample_{idx+1}.jpg" for the enumerate index idx (0-based).
SampleFileNames == <<"sample_1.jpg", "sample_2.jpg", "sample_3.jpg", "sample_4.jpg",
                     "sample_5.jpg">>
SampleName(idx) == SampleFileNames[idx + 1]

\* shutil.copy of content c to path p: creates or overwrites p.
CopyTo(fs, p, c) == [q \in DOMAIN fs \cup {p} |-> IF q = p THEN c ELSE fs[q]]

FilesIn(fs, dir) == {p \in DOMAIN fs : p[1] = dir[1] /\ p[2] = dir[2]}

(***************************************************************************)
(* SimpleFaceCategorizer.detect_faces_opencv                               *)
(***************************************************************************)
\* cv2.imread yields None for bytes it cannot decode.
Imread(bytes) == IF bytes \in {"corrupt", Partial} THEN "None" ELSE bytes

\* Number of regions detectMultiScale finds.
DetectMultiScale(img) == IF img = "group" THEN 3 ELSE 0

\* An image on which the OpenCV calls raise.
Raises(img) == img = "huge"

\* Mutant: the diagnostic is also shown when the image cannot be decoded.
detect_faces_reporting(bytes) ==
    LET img == Imread(bytes)
    IN  IF img = "None" THEN [faces |-> 0, diag |-> TRUE]
        ELSE IF Raises(img) THEN [faces |-> 0, diag |-> TRUE]
        ELSE [faces |-> DetectMultiScale(img), diag |-> FALSE]

\* [faces: the length of the returned list, diag: whether st.error was called].
detect_faces_opencv(bytes) ==
    LET img == Imread(bytes)
    IN  IF img = "None" THEN [faces |-> 0, diag |-> FALSE]
        ELSE IF Raises(img) THEN [faces |-> 0, diag |-> TRUE]
        ELSE [faces |-> DetectMultiScale(img), diag |-> FALSE]

(***************************************************************************)
(* SimpleFaceCategorizer.register_person                                   *)
(***************************************************************************)
\* The temporary directory the handler fills: later uploads with the same
\* file name overwrite earlier ones.
RECURSIVE TmpDirOf(_)
TmpDirOf(samples) ==
    IF samples = <<>> THEN <<>>
    ELSE LET rest == TmpDirOf(SubSeq(samples, 1, Len(samples) - 1))
             s == samples[Len(samples)]
         IN  [n \in DOMAIN rest \cup {s.name} |-> IF n = s.name THEN s.bytes ELSE rest[n]]

SamplePaths(samples) == [k \in 1..Len(samples) |-> samples[k].name]

\* The copy loop for the first n paths: sample_<idx+1>.jpg <- the file at paths[idx+1].
RECURSIVE CopySamples(_, _, _, _, _)
CopySamples(fs, person_dir, paths, src, n) ==
    IF n = 0 THEN fs
    ELSE CopyTo(CopySamples(fs, person_dir, paths, src, n - 1),
                FilePath(person_dir, SampleName(n - 1)), src[paths[n]])

\* Mutant: the person's folder is emptied before the samples are copied.
register_person_replacing(fs, name, paths, src) ==
    LET kept == DOMAIN fs \ FilesIn(fs, JoinDir("registered", name))
    IN  CopySamples([p \in kept |-> fs[p]], JoinDir("registered", name), paths, src,
                    Len(paths))

register_person(fs, name, paths, src) ==
    CopySamples(fs, JoinDir("registered", name), paths, src, Len(paths))

(***************************************************************************)
(* SimpleFaceCategorizer.process_photo                                     *)
(***************************************************************************)
\* Mutant: the photo goes to the label's folder whatever the face count.
OutputDirOfLabel(faces, person_name) == JoinDir("categorized", person_name)

\* The folder the photo goes to.
OutputDir(faces, person_name) ==
    IF faces > 0 THEN JoinDir("categorized", person_name)
    ELSE <<"categorized", "unknown">>

\* Path(image_path).name: the temporary file's own name.
DestPath(faces, person_name, image_path) ==
    FilePath(OutputDir(faces, person_name), image_path)

ResultOf(faces, person_name, dest) ==
    IF faces > 0
    THEN [status |-> "success", person |-> person_name, faces_detected |-> faces,
          destination |-> dest]
    ELSE [status |-> "no_faces", destination |-> dest]

\* The label passed to process_photo for a selectbox choice.
LabelOf(sel) == IF sel = "Unknown" THEN "unknown" ELSE sel

(***************************************************************************)
(* Initial state: a fresh data/ with registered/ and categorized/.         *)
(***************************************************************************)
NoLast == [op |-> "none", name |-> "", n |-> 0]
NoMetrics == [categorized |-> 0, no_faces |-> 0]

Init ==
    /\ dirs = {}
    /\ files = <<>>
    /\ tmpdir = <<>>
    /\ pc = "idle"
    /\ uploaded_files = <<>>
    /\ selected_person = ""
    /\ i = 0
    /\ tmp_path = ""
    /\ results = <<>>
    /\ errors = 0
    /\ message = "none"
    /\ metrics = NoMetrics
    /\ created = {}
    /\ last = NoLast
    /\ nrun = 0

\* The script is at rest, waiting for the next interaction.
AtRest == pc \in {"idle", "done", "aborted"}

\* A rerun of the script starts with no batch and an empty page.
ResetBatch ==
    /\ uploaded_files' = <<>>
    /\ selected_person' = ""
    /\ i' = 0
    /\ tmp_path' = ""
    /\ results' = <<>>
    /\ created' = {}
    /\ errors' = 0
    /\ metrics' = NoMetrics

(***************************************************************************)
(* "Register Person" button.                                               *)
(***************************************************************************)
\* Mutant: a name or samples are enough.
ValidRegisterEither(name, samples) == name # "" \/ samples # <<>>

\* The condition next to st.button("Register Person").
ValidRegister(name, samples) == name # "" /\ samples # <<>>

\* The click with a name and samples: the handler runs to the success message.
Register(name, samples) ==
    /\ AtRest
    /\ nrun < MaxRuns
    /\ nrun' = nrun + 1
    /\ ValidRegister(name, samples)
    /\ dirs' = dirs \cup {JoinDir("registered", name)}
    /\ files' = register_person(files, name, SamplePaths(samples), TmpDirOf(samples))
    /\ message' = "registered"
    /\ last' = [op |-> "register", name |-> name, n |-> Len(samples)]
    /\ pc' = "idle"
    /\ ResetBatch
    /\ UNCHANGED tmpdir

\* The click with an empty name or no samples: the condition fails, nothing runs.
RegisterRejected(name, samples) ==
    /\ AtRest
    /\ nrun < MaxRuns
    /\ nrun' = nrun + 1
    /\ ~ValidRegister(name, samples)
    /\ message' = "none"
    /\ last' = [op |-> "register_rejected", name |-> name, n |-> Len(samples)]
    /\ pc' = "idle"
    /\ ResetBatch
    /\ UNCHANGED <<dirs, files, tmpdir>>

\* The copy of sample f raises: samples before f are copied, sample f's
\* destination is untouched or truncated, and no success message is shown.
RegisterFault(name, samples, f, truncated) ==
    /\ AtRest
    /\ nrun < MaxRuns
    /\ nrun' = nrun + 1
    /\ ValidRegister(name, samples)
    /\ f \in 1..Len(samples)
    /\ dirs' = dirs \cup {JoinDir("registered", name)}
    /\ LET done == CopySamples(files, JoinDir("registered", name), SamplePaths(samples),
                               TmpDirOf(samples), f - 1)
       IN  files' = IF truncated
                    THEN CopyTo(done, FilePath(JoinDir("registered", name), SampleName(f - 1)),
                                Partial)
                    ELSE done
    /\ message' = "exception"
    /\ last' = [op |-> "register_fault", name |-> name, n |-> Len(samples)]
    /\ pc' = "idle"
    /\ ResetBatch
    /\ UNCHANGED tmpdir

(***************************************************************************)
(* "Upload Photos to Categorize" and the "Categorize Photos" button.       *)
(***************************************************************************)
\* persons: the directories directly under data/registered.
Persons == {d[2] : d \in {e \in dirs : e[1] = "registered"}}

\* "if uploaded_files:".
HasFiles(photos) == photos # <<>>

\* No file chosen: the whole block is skipped.
CategorizeNoFiles(photos) ==
    /\ AtRest
    /\ nrun < MaxRuns
    /\ nrun' = nrun + 1
    /\ ~HasFiles(photos)
    /\ message' = "none"
    /\ last' = [op |-> "categorize_nofiles", name |-> "", n |-> 0]
    /\ pc' = "idle"
    /\ ResetBatch
    /\ UNCHANGED <<dirs, files, tmpdir>>

\* Files chosen and nobody registered: the warning.
CategorizeNoPersons(photos) ==
    /\ AtRest
    /\ nrun < MaxRuns
    /\ nrun' = nrun + 1
    /\ HasFiles(photos)
    /\ Persons = {}
    /\ message' = "register_first"
    /\ last' = [op |-> "categorize_nopersons", name |-> "", n |-> Len(photos)]
    /\ pc' = "idle"
    /\ ResetBatch
    /\ UNCHANGED <<dirs, files, tmpdir>>

\* Files chosen, a label selected, the button clicked: the loop starts.
CategorizeClick(photos, sel) ==
    /\ AtRest
    /\ nrun < MaxRuns
    /\ nrun' = nrun + 1
    /\ HasFiles(photos)
    /\ Persons # {}
    /\ sel \in Persons \cup {"Unknown"}
    /\ uploaded_files' = photos
    /\ selected_person' = sel
    /\ i' = 1
    /\ tmp_path' = ""
    /\ results' = <<>>
    /\ created' = {}
    /\ errors' = 0
    /\ metrics' = NoMetrics
    /\ message' = "processing"
    /\ last' = [op |-> "categorize", name |-> sel, n |-> Len(photos)]
    /\ pc' = "write_tmp"
    /\ UNCHANGED <<dirs, files, tmpdir>>

\* NamedTemporaryFile(delete=False, suffix='.jpg') and the write of the upload.
WriteTmp(t) ==
    /\ pc = "write_tmp"
    /\ t \in TmpNames \ DOMAIN tmpdir
    /\ tmpdir' = [n \in DOMAIN tmpdir \cup {t} |->
                     IF n = t THEN uploaded_files[i].bytes ELSE tmpdir[n]]
    /\ tmp_path' = t
    /\ created' = created \cup {t}
    /\ pc' = "process"
    /\ UNCHANGED <<dirs, files, uploaded_files, selected_person, i, results, errors,
                   message, metrics, last, nrun>>

\* process_photo returns and its result is appended.
ProcessPhoto ==
    /\ pc = "process"
    /\ LET det == detect_faces_opencv(tmpdir[tmp_path])
           label == LabelOf(selected_person)
           dest == DestPath(det.faces, label, tmp_path)
       IN  /\ dirs' = dirs \cup {OutputDir(det.faces, label)}
           /\ files' = CopyTo(files, dest, tmpdir[tmp_path])
           /\ results' = Append(results, ResultOf(det.faces, label, dest))
           /\ errors' = IF det.diag THEN errors + 1 ELSE errors
    /\ pc' = "unlink"
    /\ UNCHANGED <<tmpdir, uploaded_files, selected_person, i, tmp_path, message,
                   metrics, created, last, nrun>>

\* Mutant: the failed batch is rolled back, its copies are removed.
ProcessFaultRollback(truncated) ==
    /\ pc = "process"
    /\ LET det == detect_faces_opencv(tmpdir[tmp_path])
           label == LabelOf(selected_person)
           copied == {results[k].destination : k \in 1..Len(results)}
       IN  /\ dirs' = dirs \cup {OutputDir(det.faces, label)}
           /\ files' = [p \in DOMAIN files \ copied |-> files[p]]
           /\ errors' = IF det.diag THEN errors + 1 ELSE errors
    /\ message' = "exception"
    /\ pc' = "aborted"
    /\ UNCHANGED <<tmpdir, uploaded_files, selected_person, i, tmp_path, results,
                   metrics, created, last, nrun>>

\* shutil.copy inside process_photo raises: the folder exists, the destination is
\* untouched or truncated, and the exception ends the run before os.unlink.
ProcessFault(truncated) ==
    /\ pc = "process"
    /\ LET det == detect_faces_opencv(tmpdir[tmp_path])
           label == LabelOf(selected_person)
           dest == DestPath(det.faces, label, tmp_path)
       IN  /\ dirs' = dirs \cup {OutputDir(det.faces, label)}
           /\ files' = IF truncated THEN CopyTo(files, dest, Partial) ELSE files
           /\ errors' = IF det.diag THEN errors + 1 ELSE errors
    /\ message' = "exception"
    /\ pc' = "aborted"
    /\ UNCHANGED <<tmpdir, uploaded_files, selected_person, i, tmp_path, results,
                   metrics, created, last, nrun>>

\* sum(1 for r in results if r['status'] == status).
CountStatus(rs, status) == Cardinality({k \in 1..Len(rs) : rs[k].status = status})

\* Mutant: the temporary file is never removed.
UnlinkKeepsFile ==
    /\ pc = "unlink"
    /\ i' = i + 1
    /\ IF i < Len(uploaded_files)
       THEN /\ pc' = "write_tmp"
            /\ UNCHANGED <<message, metrics>>
       ELSE /\ pc' = "done"
            /\ message' = "processed"
            /\ metrics' = [categorized |-> CountStatus(results, "success"),
                           no_faces |-> CountStatus(results, "no_faces")]
    /\ UNCHANGED <<dirs, files, tmpdir, uploaded_files, selected_person, tmp_path,
                   results, errors, created, last, nrun>>

\* os.unlink(tmp_path), then the next photo or the summary.
Unlink ==
    /\ pc = "unlink"
    /\ tmpdir' = [n \in DOMAIN tmpdir \ {tmp_path} |-> tmpdir[n]]
    /\ i' = i + 1
    /\ IF i < Len(uploaded_files)
       THEN /\ pc' = "write_tmp"
            /\ UNCHANGED <<message, metrics>>
       ELSE /\ pc' = "done"
            /\ message' = "processed"
            /\ metrics' = [categorized |-> CountStatus(results, "success"),
                           no_faces |-> CountStatus(results, "no_faces")]
    /\ UNCHANGED <<dirs, files, uploaded_files, selected_person, tmp_path, results,
                   errors, created, last, nrun>>

Next ==
    \/ \E name \in PersonNames, samples \in SampleLists : Register(name, samples)
    \/ \E name \in PersonNames, samples \in SampleLists : RegisterRejected(name, samples)
    \/ \E name \in PersonNames, samples \in SampleLists, f \in 1..MaxUploads,
          truncated \in BOOLEAN : RegisterFault(name, samples, f, truncated)
    \/ \E photos \in PhotoLists : CategorizeNoFiles(photos)
    \/ \E photos \in PhotoLists : CategorizeNoPersons(photos)
    \/ \E photos \in PhotoLists, sel \in PersonNames \cup {"Unknown"} :
          CategorizeClick(photos, sel)
    \/ \E t \in TmpNames : WriteTmp(t)
    \/ ProcessPhoto
    \/ \E truncated \in BOOLEAN : ProcessFault(truncated)
    \/ Unlink

Spec == Init /\ [][Next]_vars

(***************************************************************************)
(* One run of the script over a data/ that earlier runs filled.  data/     *)
(* outlives the script: __init__ takes it as it finds it (exist_ok=True).  *)
(* Every directory below is written with the operators of the model, by    *)
(* registrations and photo copies the full specification can perform.      *)
(***************************************************************************)
TwoSamples == <<[name |-> "a.jpg", bytes |-> "group"], [name |-> "b.jpg", bytes |-> "landscape"]>>
OneSample == <<[name |-> "a.jpg", bytes |-> "landscape"]>>

RegisteredFiles ==
    register_person(
        register_person(<<>>, "alice", SamplePaths(TwoSamples), TmpDirOf(TwoSamples)),
        "bob", SamplePaths(OneSample), TmpDirOf(OneSample))

RegisteredDirs == {JoinDir("registered", "alice"), JoinDir("registered", "bob")}

DataDirs ==
    { \* a fresh data/
      [dirs |-> {}, files |-> <<>>, tmpdir |-> <<>>],
      \* alice registered with two samples, bob with one
      [dirs |-> RegisteredDirs, files |-> RegisteredFiles, tmpdir |-> <<>>],
      \* and a batch for alice that filed a group photo and a landscape
      [dirs |-> RegisteredDirs \cup {OutputDir(3, "alice"), OutputDir(0, "alice")},
       files |-> CopyTo(CopyTo(RegisteredFiles, DestPath(3, "alice", "tmpA.jpg"), "group"),
                        DestPath(0, "alice", "tmpB.jpg"), "landscape"),
       tmpdir |-> <<>>],
      \* and a batch whose second copy raised, leaving its temporary file
      [dirs |-> RegisteredDirs \cup {OutputDir(3, "alice"), OutputDir(0, "alice")},
       files |-> CopyTo(RegisteredFiles, DestPath(3, "alice", "tmpA.jpg"), "group"),
       tmpdir |-> [n \in {"tmpB.jpg"} |-> "landscape"]] }

InitRun ==
    /\ \E d \in DataDirs : dirs = d.dirs /\ files = d.files /\ tmpdir = d.tmpdir
    /\ pc = "idle"
    /\ uploaded_files = <<>>
    /\ selected_person = ""
    /\ i = 0
    /\ tmp_path = ""
    /\ results = <<>>
    /\ errors = 0
    /\ message = "none"
    /\ metrics = NoMetrics
    /\ created = {}
    /\ last = NoLast
    /\ nrun = MaxRuns - 1

SpecRun == InitRun /\ [][Next]_vars

(***************************************************************************)
(* Properties.                                                             *)
(***************************************************************************)
\* The photos process_photo has been called on in this batch: those with a
\* result, and the one whose copy raised.
Processed == (1..Len(results)) \cup (IF pc = "aborted" THEN {i} ELSE {})

\* The detected face count of upload k of the batch.
FacesOf(k) == detect_faces_opencv(uploaded_files[k].bytes).faces

\* C1: every process_photo call that returns has copied the photo into exactly
\* one folder of categorized/: categorized/<label> with status 'success' when
\* the face count is > 0, categorized/unknown with status 'no_faces' when it
\* is 0, whatever the label; no other path of data/ changes in that call.
C1_OneFolderByFaceCount ==
    [][pc = "process" /\ pc' = "unlink" =>
        LET faces == detect_faces_opencv(tmpdir[tmp_path]).faces
            folder == IF faces > 0 THEN LabelOf(selected_person) ELSE "unknown"
            dest == <<"categorized", folder, tmp_path>>
            r == results'[Len(results')]
        IN  /\ Len(results') = Len(results) + 1
            /\ r.status = (IF faces > 0 THEN "success" ELSE "no_faces")
            /\ r.destination = dest
            /\ dest \in DOMAIN files' /\ files'[dest] = tmpdir[tmp_path]
            /\ DOMAIN files' = DOMAIN files \cup {dest}
            /\ \A p \in DOMAIN files : p # dest => files'[p] = files[p]
            /\ dirs' = dirs \cup {<<"categorized", folder>>}]_vars

\* A photo without faces was filed under unknown although alice was selected,
\* and one with faces under alice.
C1_Witness ==
    /\ pc = "done"
    /\ selected_person = "alice"
    /\ \E j, k \in 1..Len(results) :
          /\ results[j].status = "no_faces"
          /\ results[j].destination[2] = "unknown"
          /\ results[k].status = "success"
          /\ results[k].destination[2] = "alice"

\* C2: the copy of an uploaded photo with original file name F is stored under
\* the name F, and the returned destination ends with F.
C2_OriginalNamePreserved ==
    \A k \in 1..Len(results) :
        /\ results[k].destination[3] = uploaded_files[k].name
        /\ results[k].destination \in DOMAIN files

\* C3: two categorize calls with identical image bytes, file name and label
\* return the same destination path, where the second copy has replaced the
\* first (the folder holds one file for the two calls).
C3_SecondOverwritesFirst ==
    \A j, k \in 1..Len(results) :
        (j < k /\ uploaded_files[j] = uploaded_files[k]) =>
            /\ results[j].destination = results[k].destination
            /\ files[results[k].destination] = uploaded_files[k].bytes

\* A click on "Register Person" with this name and these samples, whatever
\* the handler does with it.
RegisterClick(name, samples) ==
    /\ last'.name = name /\ last'.n = Len(samples)
    /\ \/ Register(name, samples)
       \/ RegisterRejected(name, samples)
       \/ \E f \in 1..Len(samples), truncated \in BOOLEAN :
             RegisterFault(name, samples, f, truncated)

\* The paths register_person may write for a name and n samples.
SampleTargets(name, n) ==
    {FilePath(JoinDir("registered", name), SampleName(k - 1)) : k \in 1..n}

\* C4: after register(name, [img_1..img_N]), N >= 1, the folder of the name
\* holds exactly N files, sample_1 .. sample_N, and sample_k holds img_k.
C4_ExactlyTheSamples ==
    [][AtRest => \A name \in PersonNames, samples \in SampleLists :
        Register(name, samples) =>
            /\ FilesIn(files', JoinDir("registered", name)) = SampleTargets(name, Len(samples))
            /\ \A k \in 1..Len(samples) :
                  files'[FilePath(JoinDir("registered", name), SampleName(k - 1))]
                      = samples[k].bytes]_vars

\* C5: registering a name with M samples writes only sample_1 .. sample_M of
\* that name: every other file of data/ (the name's samples beyond M, every
\* other name's samples) is left as it was, and no other file appears.
C5_OnlyTheFirstM ==
    [][AtRest => \A name \in PersonNames, samples \in SampleLists :
        RegisterClick(name, samples) =>
            /\ \A p \in DOMAIN files :
                  p \notin SampleTargets(name, Len(samples)) =>
                      p \in DOMAIN files' /\ files'[p] = files[p]
            /\ DOMAIN files' \subseteq DOMAIN files \cup SampleTargets(name, Len(samples))]_vars

\* alice, registered with two samples, was registered again with one: her
\* sample_2 and bob's sample are still there.
C5_Witness ==
    /\ last = [op |-> "register", name |-> "alice", n |-> 1]
    /\ <<"registered", "alice", "sample_2.jpg">> \in DOMAIN files
    /\ files[<<"registered", "alice", "sample_2.jpg">>] = "landscape"
    /\ <<"registered", "bob", "sample_1.jpg">> \in DOMAIN files

\* A use of the categorize uploader with these photos, whatever follows.
CategorizeUse(photos) ==
    \/ CategorizeNoFiles(photos)
    \/ CategorizeNoPersons(photos)
    \/ \E sel \in PersonNames \cup {"Unknown"} : CategorizeClick(photos, sel)

\* C6: a register click with an empty name or without samples, and a
\* categorize interaction without files, change neither tree of data/ and
\* start no batch.
C6_InvalidInputRejected ==
    [][AtRest =>
        /\ \A name \in PersonNames, samples \in SampleLists :
              ((name = "" \/ samples = <<>>) /\ RegisterClick(name, samples)) =>
                  dirs' = dirs /\ files' = files /\ message' = "none"
        /\ \A photos \in PhotoLists :
              (photos = <<>> /\ CategorizeUse(photos)) =>
                  dirs' = dirs /\ files' = files /\ tmpdir' = tmpdir /\ pc' = "idle"]_vars

\* A click with samples and no name was rejected over a data/ that holds
\* registrations.
C6_Witness ==
    /\ last.op = "register_rejected" /\ last.name = "" /\ last.n > 0
    /\ <<"registered", "alice", "sample_1.jpg">> \in DOMAIN files

\* The destination of the photo whose copy raised.
FailDest ==
    <<"categorized",
      IF FacesOf(i) > 0 THEN LabelOf(selected_person) ELSE "unknown",
      tmp_path>>

C9_FoldersAreRegisteredNames ==
    \A d \in dirs :
        d[1] = "categorized" => (d[2] = "unknown" \/ <<"registered", d[2]>> \in dirs)

\* The temporary files of the running batch that exist.
BatchTmp == created \cap DOMAIN tmpdir

\* C10: at most one temporary file of the batch exists at any moment, none
\* when the next photo is taken up or the batch has completed; a completed
\* batch has one result per upload, in upload order, each 'success' or
\* 'no_faces', and the two summary counts add up to the number of uploads.
C10_OneTmpOneResult ==
    /\ Cardinality(BatchTmp) <= 1
    /\ pc \in {"write_tmp", "done"} => BatchTmp = {}
    /\ pc = "done" =>
          /\ Len(results) = Len(uploaded_files)
          /\ \A k \in 1..Len(results) :
                /\ results[k].status \in {"success", "no_faces"}
                /\ results[k].status = "success" <=> FacesOf(k) > 0
          /\ metrics.categorized + metrics.no_faces = Len(uploaded_files)

\* A batch of two photos completed, one with faces and one without, over a
\* temporary directory that holds another batch's file.
C10_Witness ==
    /\ pc = "done"
    /\ Len(results) = 2
    /\ metrics = [categorized |-> 1, no_faces |-> 1]
    /\ DOMAIN tmpdir # {}

====
